---------------------------- MODULE Spec2Model ----------------------------
(***************************************************************************)
(* Model of the news ingestion-and-analysis pipeline of                    *)
(* CompanySustainabilityAssessment-backend: the term partitioning of the   *)
(* fetch stage, the per-article ingestion run by the process pool, the     *)
(* SQLite store behind NewsAnalysisDAO and the read endpoints of the API.  *)
(*                                                                         *)
(* Strings that the code searches in (article texts, company and synonym  *)
(* names) are sequences of one-character strings, so that Python's         *)
(* substring test is computed and not assumed.  Probabilities and the      *)
(* relevancy score are counted in tenths (0..Scale), sentiments are the    *)
(* integers 0..10, dates are day numbers.                                  *)
(***************************************************************************)
EXTENDS Integers, Sequences, FiniteSets, TLC

VARIABLES
    \* ---- the store (database/db_creation.py) ----
    Company,                  \* rows of table Company, in table order
    Synonym,                  \* rows of table Synonym, in table order
    News,                     \* rows of table News; News[i].news_ID = i
    contains,                 \* rows of table contains
    News_indicator,           \* rows of table News_indicator
    Sustainability_indicator, \* rows of table Sustainability_indicator
    \* ---- one analysis cycle (news_text_analysis.py) ----
    cycle,                    \* position of analyze_api_news_for_each_company
    received_news_list,       \* the list handed to pool.map
    results,                  \* per list entry: what pool.map has collected
    pool_size,                \* optimal_processes_amount
    proc,                     \* per pool process: position and locals of analyze_news_text
    map_error,                \* the exception pool.map re-raises in the parent, or None
    \* ---- the API (api.py) ----
    response,                 \* what the last request was answered with
    writes,                   \* write requests served so far
    \* ---- _get_thread_amount_and_chunks_for_bulk_search ----
    search_items,
    max_thread_amount,
    bulk,
    searched,                 \* per search thread: the terms it has called the search with
    \* ---- the scheduler and its host (news_text_analysis.py) ----
    depth,                    \* calls of _analyze_and_cycle that have not returned
    active_children,          \* live child processes other than those of the pool
    host,                     \* config.yaml and the GPU the pool is sized for
    \* ---- NewsAnalysisDAO.__init__ (database/news_analysis_DAO.py) ----
    db_file,                  \* database/db.sqlite: missing, empty, or with its tables
    dao                       \* per program: position and locals of __init__

vars == <<Company, Synonym, News, contains, News_indicator, Sustainability_indicator,
          cycle, received_news_list, results, pool_size, proc, map_error,
          response, writes, search_items, max_thread_amount, bulk, searched,
          depth, active_children, host, db_file, dao>>

storeVars == <<Company, Synonym, News, contains, News_indicator, Sustainability_indicator>>
cycleVars == <<cycle, received_news_list, results, pool_size, proc, map_error>>
apiVars   == <<response, writes>>
bulkVars  == <<search_items, max_thread_amount, bulk, searched>>
hostVars  == <<active_children, host, db_file, dao>>

None == "None"
NoNews == 0        \* None where a News row, or its news_ID, is expected

(***************************************************************************)
(* Bounds of the model.                                                    *)
(***************************************************************************)
MaxTerms    == 4   \* longest list of search terms that is partitioned
MaxThreads  == 3   \* largest threads_for_news_search that is tried
MaxArticles == 2   \* longest list one cycle hands to pool.map
MaxProcs    == 2   \* largest pool that is created
MaxWrites   == 1   \* write requests the API serves while a model run lasts
MaxBatch    == 5   \* longest list of the cycles that are followed for their chunks
MaxDepth    == 3   \* nesting of _analyze_and_cycle the interpreter allows
MaxChildren == 1   \* child processes beside the pool
MaxMemory   == 20  \* largest GPU memory, in halves of a GiB
MaxVram     == 8   \* largest vram_gb_per_analysis_multiprocess, in halves of a GB
MaxHandles  == 2   \* most calls of NewsAnalysisDAO() of one program

Min(a, b) == IF a <= b THEN a ELSE b
Max(a, b) == IF a >= b THEN a ELSE b

Range(s) == {s[i] : i \in DOMAIN s}

SeqsUpTo(S, n) == UNION {[1..k -> S] : k \in 0..n}

(***************************************************************************)
(* Python strings and lists.                                               *)
(***************************************************************************)
\* s in t, for strings (the empty string is in every string)
IsIn(s, t) ==
    \E i \in 0..(Len(t) - Len(s)) : SubSeq(t, i + 1, i + Len(s)) = s

\* lst[start:end] with 0 <= start, 0 <= end (indices past the end are clamped)
Slice(lst, start, end) == SubSeq(lst, start + 1, Min(end, Len(lst)))

RECURSIVE Concat(_)
Concat(lists) ==
    IF lists = <<>> THEN <<>> ELSE Head(lists) \o Concat(Tail(lists))

(***************************************************************************)
(* The names and texts of the model.                                       *)
(***************************************************************************)
Ab  == <<"A", "b">>          \* a company
Cd  == <<"C">>               \* a company
ab  == <<"a", "b">>          \* a synonym: "Ab" in another case
CompanyNames == {Ab, Cd}
SynonymNames == {ab}

(***************************************************************************)
(* _get_thread_amount_and_chunks_for_bulk_search                           *)
(***************************************************************************)
ChunkEndDropsRemainder(items, used, chunk_size, i) == (i + 1) * chunk_size

\* end_index of chunk i (0-based)
ChunkEnd(items, used, chunk_size, i) ==
    IF i < used - 1 THEN (i + 1) * chunk_size ELSE Len(items)

_get_thread_amount_and_chunks_for_bulk_search(items, max_threads) ==
    LET used_threads_amount == Min(Len(items), max_threads) IN
    IF used_threads_amount = 0
    THEN [used_threads_amount |-> 0, news_chunks |-> <<>>]
    ELSE LET chunk_size == Len(items) \div used_threads_amount IN
         [used_threads_amount |-> used_threads_amount,
          news_chunks |->
              [j \in 1..used_threads_amount |->
                  Slice(items, (j - 1) * chunk_size,
                        ChunkEnd(items, used_threads_amount, chunk_size, j - 1))]]

SearchTerms == CompanyNames \cup SynonymNames

(***************************************************************************)
(* Search results and classifier answers that are tried.                   *)
(***************************************************************************)
X1 == <<"A", "b", "C">>      \* names Ab and C
X2 == <<"a", "b">>           \* names nobody, but holds the synonym ab

Articles ==
    { [title |-> X1, article |-> X1, url |-> <<"u", "1">>, published_date |-> 1],
      [title |-> X1, article |-> X1, url |-> <<"u", "2">>, published_date |-> 2],
      [title |-> X2, article |-> X2, url |-> <<"u", "3">>, published_date |-> 2] }

NotRelevant == "Not Relevant to ESG"

\* Indicators (the enum; two of its members stand for all of them)
Indicators == {"Biodiversity", "Disclosure"}

Scale == 10

\* what classify_sustainability_categories and analyze_sentiment answer for one
\* text: the labels by falling probability, the probabilities, the sentiment
ClassifierRuns ==
    { [labels |-> <<"Biodiversity", "Disclosure", NotRelevant>>,
       probs |-> <<8, 6, 1>>, sentiment |-> 7],
      [labels |-> <<"Disclosure", NotRelevant, "Unknown">>,
       probs |-> <<7, 3, 1>>, sentiment |-> 2],
      [labels |-> <<NotRelevant, "Biodiversity">>,
       probs |-> <<9, 6>>, sentiment |-> 4],
      [labels |-> <<"Biodiversity", NotRelevant, "Unknown">>,
       probs |-> <<3, 2, 1>>, sentiment |-> 0],
      [labels |-> <<"Biodiversity">>,
       probs |-> <<7>>, sentiment |-> 4] }

(***************************************************************************)
(* NewsAnalysisDAO: every method is one session, hence one step.           *)
(***************************************************************************)
\* config["news_are_relevant_threshold"], config["indicator_belongs_to_news_threshold"]
news_are_relevant_threshold == 5
indicator_belongs_to_news_threshold == 5

CompanyRow(name) == [name |-> name]
SynonymRow(company_name, name) == [company_name |-> company_name, name |-> name]

get_all_companies == Company
get_all_synonyms == Synonym

get_synonyms_by_company(company_name) ==
    SelectSeq(Synonym, LAMBDA row : row.company_name = company_name)

NewsIds == DOMAIN News

NewsTextNeverFound(text) == NoNews

\* get_news_by_news_text: the News row with that text (its news_ID), or None
get_news_by_news_text(text) ==
    IF \E n \in NewsIds : News[n].text = text
    THEN CHOOSE n \in NewsIds : News[n].text = text
    ELSE NoNews

CompanyRowsKept(rows, company_name) == rows

\* the rows a delete of a company leaves in a table with a cascading foreign key
WithoutCompany(rows, company_name) ==
    SelectSeq(rows, LAMBDA row : row.company_name # company_name)

OnlyFirstCompanyAttached(news_id, company_name) ==
    IF /\ news_id \in NewsIds
       /\ CompanyRow(company_name) \in Range(Company)
       /\ ~ \E row \in contains : row.news_ID = news_id
    THEN contains \cup {[news_ID |-> news_id, company_name |-> company_name]}
    ELSE contains

\* INSERT INTO contains: refused by the primary key (news_ID, company_name) and by
\* the foreign keys on News and Company; _create_contains swallows the refusal
_create_contains(news_id, company_name) ==
    IF /\ news_id \in NewsIds
       /\ CompanyRow(company_name) \in Range(Company)
    THEN contains \cup {[news_ID |-> news_id, company_name |-> company_name]}
    ELSE contains

\* INSERT INTO News_indicator: primary key (news_ID, sustainability_indicator_name),
\* foreign keys on News and Sustainability_indicator; the refusal is swallowed
create_news_indicator(news_id, indicator_name, probability) ==
    IF /\ news_id \in NewsIds
       /\ indicator_name \in Sustainability_indicator
       /\ ~ \E r \in News_indicator :
              /\ r.news_ID = news_id
              /\ r.sustainability_indicator_name = indicator_name
    THEN News_indicator \cup
             {[news_ID |-> news_id, sustainability_indicator_name |-> indicator_name,
               probability |-> probability]}
    ELSE News_indicator

UniqueTextIgnored(news) ==
    /\ news.title # <<>>
    /\ news.article # <<>>
    /\ news.url # <<>>

\* the INSERT INTO News of create_news is accepted: text is unique, and title, text
\* and link are not empty
NewsInsertOk(news) ==
    /\ \A n \in NewsIds : News[n].text # news.article
    /\ news.title # <<>>
    /\ news.article # <<>>
    /\ news.url # <<>>

NewsRowTextIsLink(news, sentiment, relevancy_score) ==
    [news_ID |-> Len(News) + 1, title |-> news.title, text |-> news.url,
     link |-> news.article, sentiment |-> sentiment, relevancy_score |-> relevancy_score,
     date |-> news.published_date]

NewsRow(news, sentiment, relevancy_score) ==
    [news_ID |-> Len(News) + 1, title |-> news.title, text |-> news.article,
     link |-> news.url, sentiment |-> sentiment, relevancy_score |-> relevancy_score,
     date |-> news.published_date]

(***************************************************************************)
(* CompanyClassifier.recognize_companies                                   *)
(***************************************************************************)
SynonymInTextNever(text, company_name) == FALSE

\* the else branch: some synonym of the company is in the text
SynonymInText(text, company_name) ==
    \E k \in DOMAIN get_synonyms_by_company(company_name) :
        IsIn(get_synonyms_by_company(company_name)[k].name, text)

RECURSIVE RecognizeIn(_, _)
RecognizeIn(text, company_names) ==
    IF company_names = <<>> THEN <<>>
    ELSE (IF IsIn(Head(company_names), text)
          THEN <<Head(company_names)>>
          ELSE IF SynonymInText(text, Head(company_names))
               THEN <<Head(company_names)>>
               ELSE <<>>)
         \o RecognizeIn(text, Tail(company_names))

recognize_companies(text) ==
    RecognizeIn(text, [k \in DOMAIN get_all_companies |-> get_all_companies[k].name])

(***************************************************************************)
(* analyze_news_text, run by the processes of the pool.  proc[w] holds the *)
(* position of process w and the locals of the call it is in.              *)
(***************************************************************************)
Procs == 1..MaxProcs

NoRelevantCompanies == "NoRelevantCompaniesInNewsTextException"
LabelNotFound == "LabelNotFoundException"
AttributeError == "AttributeError"

\* the locals of analyze_news_text that are not bound yet
NoRun == [labels |-> <<>>, probs |-> <<>>, sentiment |-> 0]
NoScore == -1

IdleProc ==
    [pc |-> "idle", task |-> 0, recognized_company_names |-> <<>>, news_in_db |-> NoNews,
     run |-> NoRun, relevancy_score |-> NoScore, new_news |-> NoNews, i |-> 0]

OffProc == [IdleProc EXCEPT !.pc = "off"]

Pending == [outcome |-> "pending", recognized |-> <<>>]

\* the entry of received_news_list that process w works on
NewsOf(w) == received_news_list[proc[w].task]

\* Pool.map: chunksize, extra = divmod(len(iterable), len(pool) * 4), rounded up
MapChunkSize ==
    LET n == Len(received_news_list)
        q == n \div (pool_size * 4)
    IN IF n % (pool_size * 4) = 0 THEN q ELSE q + 1

FirstOfChunk(k) == (k - 1) % MapChunkSize = 0
LastOfChunk(k) == k % MapChunkSize = 0 \/ k = Len(received_news_list)

\* the entries of the chunk of entry k that come after k
RestOfChunk(k) ==
    {m \in DOMAIN received_news_list :
        m > k /\ (m - 1) \div MapChunkSize = (k - 1) \div MapChunkSize}

\* the first entries of the chunks that no process has taken yet
Undispatched ==
    {k \in DOMAIN received_news_list :
        /\ FirstOfChunk(k)
        /\ results[k].outcome = "pending"
        /\ ~ \E w \in Procs : proc[w].pc \notin {"idle", "off"} /\ proc[w].task = k}

RaiseNothing(w, exception) ==
    /\ proc' = [proc EXCEPT ![w] = [@ EXCEPT !.pc = "lookup"]]
    /\ UNCHANGED <<results, map_error>>

\* The exception ends the chunk (mapstar), whose other entries are never analyzed,
\* and is sent to the parent.  MapResult stores only the first exception and
\* re-raises it once every chunk is done.
Raise(w, exception) ==
    /\ results' = [k \in DOMAIN results |->
                     IF k = proc[w].task
                     THEN [outcome |-> exception,
                           recognized |-> proc[w].recognized_company_names]
                     ELSE IF k \in RestOfChunk(proc[w].task)
                          THEN [outcome |-> "skipped", recognized |-> <<>>]
                          ELSE results[k]]
    /\ proc' = [proc EXCEPT ![w] = IdleProc]
    /\ map_error' = IF map_error = None THEN exception ELSE map_error

\* line 272: the call returns its NewsTextAnalysisResult; the process goes on with
\* the next entry of its chunk
Return(w) ==
    /\ results' = [results EXCEPT ![proc[w].task] =
                      [outcome |-> "returned",
                       recognized |-> proc[w].recognized_company_names]]
    /\ proc' = [proc EXCEPT ![w] =
                  IF LastOfChunk(proc[w].task)
                  THEN IdleProc
                  ELSE [IdleProc EXCEPT !.pc = "recognize", !.task = proc[w].task + 1]]
    /\ UNCHANGED map_error

\* a process of the pool takes the next chunk of the list
TakeTask(w) ==
    /\ cycle = "fanout"
    /\ proc[w].pc = "idle"
    /\ Undispatched # {}
    /\ LET k == CHOOSE k \in Undispatched : \A m \in Undispatched : k <= m IN
       proc' = [proc EXCEPT ![w] = [IdleProc EXCEPT !.pc = "recognize", !.task = k]]
    /\ UNCHANGED <<storeVars, apiVars, bulkVars, hostVars, depth, cycle,
                   received_news_list, results,
                   pool_size, map_error>>

\* lines 215-219
Recognize(w) ==
    /\ proc[w].pc = "recognize"
    /\ LET names == recognize_companies(NewsOf(w).article) IN
       IF Len(names) = 0
       THEN Raise(w, NoRelevantCompanies)
       ELSE /\ proc' = [proc EXCEPT ![w] =
                          [@ EXCEPT !.pc = "lookup", !.recognized_company_names = names]]
            /\ UNCHANGED <<results, map_error>>
    /\ UNCHANGED <<storeVars, apiVars, bulkVars, hostVars, depth, cycle,
                   received_news_list, pool_size>>

\* lines 225-227 and 266-267
Lookup(w) ==
    /\ proc[w].pc = "lookup"
    /\ LET news_in_db == get_news_by_news_text(NewsOf(w).article) IN
       proc' = [proc EXCEPT ![w] =
                  [@ EXCEPT !.news_in_db = news_in_db,
                            !.i = 1,
                            !.pc = IF news_in_db = NoNews THEN "classify" ELSE "attach"]]
    /\ UNCHANGED <<storeVars, apiVars, bulkVars, hostVars, depth, cycle,
                   received_news_list, results,
                   pool_size, map_error>>

HasLabel(run, label) == \E k \in DOMAIN run.labels : run.labels[k] = label

\* list.index
IndexOf(run, label) ==
    CHOOSE k \in DOMAIN run.labels :
        /\ run.labels[k] = label
        /\ \A m \in DOMAIN run.labels : run.labels[m] = label => k <= m

RelevancyIsProbability(run) == run.probs[IndexOf(run, NotRelevant)]

\* line 253
RelevancyScore(run) == Scale - run.probs[IndexOf(run, NotRelevant)]

\* lines 228-246: both models are run on the text
Classify(w) ==
    /\ proc[w].pc = "classify"
    /\ \E run \in ClassifierRuns :
         proc' = [proc EXCEPT ![w] = [@ EXCEPT !.run = run, !.pc = "relevancy"]]
    /\ UNCHANGED <<storeVars, apiVars, bulkVars, hostVars, depth, cycle,
                   received_news_list, results,
                   pool_size, map_error>>

DefaultRelevancy(w) ==
    /\ proc' = [proc EXCEPT ![w] =
                  [@ EXCEPT !.relevancy_score =
                                IF HasLabel(proc[w].run, NotRelevant)
                                THEN RelevancyScore(proc[w].run) ELSE 0,
                            !.pc = "create_news"]]
    /\ UNCHANGED <<results, map_error>>

\* lines 250-255
DeriveRelevancy(w) ==
    IF HasLabel(proc[w].run, NotRelevant)
    THEN /\ proc' = [proc EXCEPT ![w] =
                       [@ EXCEPT !.relevancy_score = RelevancyScore(proc[w].run),
                                 !.pc = "create_news"]]
         /\ UNCHANGED <<results, map_error>>
    ELSE Raise(w, LabelNotFound)

Relevancy(w) ==
    /\ proc[w].pc = "relevancy"
    /\ DeriveRelevancy(w)
    /\ UNCHANGED <<storeVars, apiVars, bulkVars, hostVars, depth, cycle,
                   received_news_list, pool_size>>

\* lines 257-258 with create_news, lines 382-394: the News row is committed before
\* add_companies_to_news is called; a refused INSERT is logged and None returned
CreateNews(w) ==
    /\ proc[w].pc = "create_news"
    /\ IF proc[w].recognized_company_names # <<>> /\ NewsInsertOk(NewsOf(w))
       THEN /\ News' = Append(News, NewsRow(NewsOf(w), proc[w].run.sentiment,
                                            proc[w].relevancy_score))
            /\ proc' = [proc EXCEPT ![w] =
                          [@ EXCEPT !.new_news = Len(News) + 1, !.i = 1,
                                    !.pc = "add_companies"]]
       ELSE /\ proc' = [proc EXCEPT ![w] = [@ EXCEPT !.i = 1, !.pc = "indicators"]]
            /\ UNCHANGED News
    /\ UNCHANGED <<Company, Synonym, contains, News_indicator, Sustainability_indicator,
                   apiVars, bulkVars, hostVars, depth, cycle,
                   received_news_list, results, pool_size,
                   map_error>>

\* the News row that add_companies_to_news is called for
AttachTarget(w) ==
    IF proc[w].pc = "attach" THEN proc[w].news_in_db ELSE proc[w].new_news

\* add_companies_to_news, lines 369-380: one _create_contains, one session, per name.
\* Called from create_news (line 396) and for a known text (line 268).
AddCompany(w) ==
    /\ proc[w].pc \in {"add_companies", "attach"}
    /\ LET names == proc[w].recognized_company_names
           i == proc[w].i
       IN /\ contains' = _create_contains(AttachTarget(w), names[i])
          /\ IF i < Len(names)
             THEN /\ proc' = [proc EXCEPT ![w] = [@ EXCEPT !.i = i + 1]]
                  /\ UNCHANGED <<results, map_error>>
             ELSE IF proc[w].pc = "add_companies"
                  THEN /\ proc' = [proc EXCEPT ![w] =
                                     [@ EXCEPT !.i = 1, !.pc = "indicators"]]
                       /\ UNCHANGED <<results, map_error>>
                  ELSE Return(w)
    /\ UNCHANGED <<Company, Synonym, News, News_indicator, Sustainability_indicator,
                   apiVars, bulkVars, hostVars, depth, cycle, received_news_list, pool_size>>

CatalogLabelsAfter(run, i) ==
    {k \in DOMAIN run.labels : k > i /\ run.labels[k] \in Indicators}

\* the positions >= i of the classifier's labels that name an indicator of the enum
CatalogLabelsFrom(run, i) ==
    {k \in DOMAIN run.labels : k >= i /\ run.labels[k] \in Indicators}

\* lines 260-264: new_news is None when create_news was refused, and None is no str
SaveIndicator(w) ==
    /\ proc[w].pc = "indicators"
    /\ LET run == proc[w].run
           rest == CatalogLabelsFrom(run, proc[w].i)
       IN IF rest = {}
          THEN /\ Return(w)
               /\ UNCHANGED News_indicator
          ELSE LET k == CHOOSE k \in rest : \A m \in rest : k <= m IN
               IF proc[w].new_news = NoNews
               THEN /\ Raise(w, AttributeError)
                    /\ UNCHANGED News_indicator
               ELSE /\ News_indicator' =
                          create_news_indicator(proc[w].new_news, run.labels[k],
                                                run.probs[k])
                    /\ proc' = [proc EXCEPT ![w] = [@ EXCEPT !.i = k + 1]]
                    /\ UNCHANGED <<results, map_error>>
    /\ UNCHANGED <<Company, Synonym, News, contains, Sustainability_indicator,
                   apiVars, bulkVars, hostVars, depth, cycle, received_news_list, pool_size>>

(***************************************************************************)
(* analyze_api_news_for_each_company                                       *)
(***************************************************************************)
\* lines 99-102
news_topics_to_search_for ==
    [k \in DOMAIN Company |-> Company[k].name]
        \o [k \in DOMAIN Synonym |-> Synonym[k].name]

\* _get_gpu_memory_gb: math.ceil(total_memory / 1024 ** 3), 0 without CUDA
_get_gpu_memory_gb ==
    IF host.cuda_is_available THEN (host.total_memory + 1) \div 2 ELSE 0

CeilOfQuotient(gpu_memory_gb, vram) == (2 * gpu_memory_gb + vram - 1) \div vram

\* int(gpu_memory_gb / config["vram_gb_per_analysis_multiprocess"])
IntOfQuotient(gpu_memory_gb, vram) == (2 * gpu_memory_gb) \div vram

\* lines 123-133
optimal_processes_amount ==
    IF host.use_cuda /\ _get_gpu_memory_gb > 0
    THEN Max(IntOfQuotient(_get_gpu_memory_gb, host.vram_gb_per_analysis_multiprocess), 1)
    ELSE 1

ChildrenIgnored == TRUE

\* len(multiprocessing.active_children()) == 0
NoActiveChildren == active_children = 0

\* Line 59 and lines 99-134: no child process is alive, the search terms are read,
\* the threads put what the search returns into the queue, the queue is drained into
\* received_news_list and the pool is created.  Without a search term no thread is
\* started.
StartCycle(lists) ==
    /\ cycle = "idle"
    /\ NoActiveChildren
    /\ \E list \in lists :
         /\ news_topics_to_search_for = <<>> => list = <<>>
         /\ received_news_list' = list
         /\ results' = [k \in DOMAIN list |-> Pending]
         /\ pool_size' = optimal_processes_amount
         /\ proc' = [w \in Procs |-> IF w <= optimal_processes_amount
                                      THEN IdleProc ELSE OffProc]
    /\ cycle' = "fanout"
    /\ map_error' = None
    /\ UNCHANGED <<storeVars, apiVars, bulkVars, hostVars, depth>>

\* Lines 134-146: pool.map comes back when every chunk is done, the pool is
\* terminated; NoRelevantCompaniesInNewsTextException is caught, any other
\* exception leaves the function.
EndCycle ==
    /\ cycle = "fanout"
    /\ \A k \in DOMAIN results : results[k].outcome # "pending"
    /\ \A w \in Procs : proc[w].pc \in {"idle", "off"}
    /\ proc' = [w \in Procs |-> OffProc]
    /\ cycle' = IF map_error \in {None, NoRelevantCompanies} THEN "done" ELSE "crashed"
    /\ UNCHANGED <<storeVars, apiVars, bulkVars, hostVars, depth,
                   received_news_list, results, pool_size,
                   map_error>>

\* _analyze_and_cycle, lines 59-62: child processes are alive, the cycle is skipped
Skip ==
    /\ cycle = "idle"
    /\ ~ NoActiveChildren
    /\ cycle' = "skipped"
    /\ UNCHANGED <<storeVars, apiVars, bulkVars, hostVars, depth, received_news_list,
                   results, pool_size, proc, map_error>>

RecursionError == "RecursionError"

\* _analyze_and_cycle, lines 64-67: a scheduler is made with one event, the timer of
\* the next cycle; it runs out and s.run() calls _analyze_and_cycle from inside the
\* call that armed it
Tick ==
    /\ cycle \in {"done", "skipped"}
    /\ depth < MaxDepth
    /\ depth' = depth + 1
    /\ cycle' = "idle"
    /\ received_news_list' = <<>>
    /\ results' = <<>>
    /\ map_error' = None
    /\ UNCHANGED <<storeVars, apiVars, bulkVars, hostVars, pool_size, proc>>

\* the call that would nest deeper than the interpreter allows raises
\* RecursionError, which no caller catches: start_analysis is left
Overflow ==
    /\ cycle \in {"done", "skipped"}
    /\ depth = MaxDepth
    /\ cycle' = RecursionError
    /\ UNCHANGED <<storeVars, apiVars, bulkVars, hostVars, depth, received_news_list,
                   results, pool_size, proc, map_error>>

\* a child process that is not of the pool starts, or ends
ChildStarts ==
    /\ active_children < MaxChildren
    /\ active_children' = active_children + 1
    /\ UNCHANGED <<storeVars, cycleVars, apiVars, bulkVars, depth, host, db_file, dao>>

ChildExits ==
    /\ active_children > 0
    /\ active_children' = active_children - 1
    /\ UNCHANGED <<storeVars, cycleVars, apiVars, bulkVars, depth, host, db_file, dao>>

(***************************************************************************)
(* The write requests of the API.                                          *)
(***************************************************************************)
NoArgs == [company_name |-> <<>>, synonym_name |-> <<>>, date_range |-> "",
           max_sentiment |-> 0, indicator_name |-> ""]
Answer(request, company_name, synonym_name, status) == [request |-> request, args |-> [NoArgs EXCEPT !.company_name = company_name, !.synonym_name = synonym_name], status |-> status, body |-> <<>>]
NoResponse == [request |-> "none", args |-> NoArgs, status |-> 0, body |-> <<>>]

CompanyExists(company_name) == CompanyRow(company_name) \in Range(Company)
SynonymNeverExists(company_name, name) == FALSE

SynonymExists(company_name, name) == SynonymRow(company_name, name) \in Range(Synonym)

\* NewsAnalysisDAO.create_company: the INSERT is sent to the database, where the
\* check name <> '' or the primary key refuses it; the session is rolled back and
\* None is returned
InsertCompanyRefused(company_name) == company_name = <<>> \/ CompanyExists(company_name)

\* POST /companies: company_does_not_exist, which lets the empty name pass, then
\* NewsAnalysisDAO.create_company
create_company(company_name) ==
    /\ writes < MaxWrites
    /\ writes' = writes + 1
    /\ IF company_name # <<>> /\ CompanyExists(company_name)
       THEN /\ response' = Answer("create_company", company_name, <<>>, 409)
            /\ UNCHANGED Company
       ELSE IF InsertCompanyRefused(company_name)
            THEN /\ response' = Answer("create_company", company_name, <<>>, 404)
                 /\ UNCHANGED Company
            ELSE /\ Company' = Append(Company, CompanyRow(company_name))
                 /\ response' = Answer("create_company", company_name, <<>>, 200)
    /\ UNCHANGED <<Synonym, News, contains, News_indicator, Sustainability_indicator,
                   cycleVars, bulkVars, hostVars, depth>>

\* DELETE /companies: does_exist, then NewsAnalysisDAO.delete_company; the delete
\* cascades to the Synonym and contains rows of the company
delete_company(company_name) ==
    /\ writes < MaxWrites
    /\ writes' = writes + 1
    /\ IF company_name = <<>>
       THEN /\ response' = Answer("delete_company", company_name, <<>>, 400)
            /\ UNCHANGED <<Company, Synonym, contains>>
       ELSE IF ~ CompanyExists(company_name)
            THEN /\ response' = Answer("delete_company", company_name, <<>>, 404)
                 /\ UNCHANGED <<Company, Synonym, contains>>
            ELSE /\ Company' = SelectSeq(Company, LAMBDA row : row.name # company_name)
                 /\ Synonym' = WithoutCompany(Synonym, company_name)
                 /\ contains' = {row \in contains : row.company_name # company_name}
                 /\ response' = Answer("delete_company", company_name, <<>>, 200)
    /\ UNCHANGED <<News, News_indicator, Sustainability_indicator, cycleVars, bulkVars,
                   hostVars, depth>>

\* POST /synonyms: does_exist, synonym_does_not_exist, NewsAnalysisDAO.create_synonym
create_synonym(company_name, synonym_name) ==
    /\ writes < MaxWrites
    /\ writes' = writes + 1
    /\ IF company_name = <<>>
       THEN /\ response' = Answer("create_synonym", company_name, synonym_name, 400)
            /\ UNCHANGED Synonym
       ELSE IF ~ CompanyExists(company_name)
            THEN /\ response' = Answer("create_synonym", company_name, synonym_name, 404)
                 /\ UNCHANGED Synonym
            ELSE IF synonym_name # <<>> /\ SynonymExists(company_name, synonym_name)
                 THEN /\ response' = Answer("create_synonym", company_name, synonym_name, 409)
                      /\ UNCHANGED Synonym
                 ELSE IF synonym_name = <<>>
                      THEN /\ response' = Answer("create_synonym", company_name, synonym_name, 404)
                           /\ UNCHANGED Synonym
                      ELSE /\ Synonym' = Append(Synonym,
                                                SynonymRow(company_name, synonym_name))
                           /\ response' = Answer("create_synonym", company_name, synonym_name, 200)
    /\ UNCHANGED <<Company, News, contains, News_indicator, Sustainability_indicator,
                   cycleVars, bulkVars, hostVars, depth>>

\* DELETE /synonyms: does_exist, then NewsAnalysisDAO.delete_synonym
delete_synonym(company_name, synonym_name) ==
    /\ writes < MaxWrites
    /\ writes' = writes + 1
    /\ IF company_name = <<>> \/ synonym_name = <<>>
       THEN /\ response' = Answer("delete_synonym", company_name, synonym_name, 400)
            /\ UNCHANGED Synonym
       ELSE IF ~ CompanyExists(company_name) \/ ~ SynonymExists(company_name, synonym_name)
            THEN /\ response' = Answer("delete_synonym", company_name, synonym_name, 404)
                 /\ UNCHANGED Synonym
            ELSE /\ Synonym' = SelectSeq(Synonym, LAMBDA row :
                                   row # SynonymRow(company_name, synonym_name))
                 /\ response' = Answer("delete_synonym", company_name, synonym_name, 200)
    /\ UNCHANGED <<Company, News, contains, News_indicator, Sustainability_indicator,
                   cycleVars, bulkVars, hostVars, depth>>

(***************************************************************************)
(* The read queries of NewsAnalysisDAO and the read requests of the API.   *)
(***************************************************************************)
\* date.today() when the API was started, and date.min
Today == 2
DateMin == 0

date_ranges == [r \in {"Heute", "Insgesamt"} |-> IF r = "Heute" THEN Today ELSE DateMin]

\* query(News).join(Contains).join(NewsIndicator) with Contains.company_name ==
\* company_name: one row per News row of the company and News_indicator row of it
NewsJoin(company_name) ==
    {j \in {[news_ID |-> n, indicator |-> r] : n \in NewsIds, r \in News_indicator} :
        /\ j.indicator.news_ID = j.news_ID
        /\ [news_ID |-> j.news_ID, company_name |-> company_name] \in contains}

\* the filters the four queries share
Filtered(company_name, from_date) ==
    {j \in NewsJoin(company_name) :
        /\ j.indicator.probability >= indicator_belongs_to_news_threshold
        /\ News[j.news_ID].relevancy_score >= news_are_relevant_threshold
        /\ News[j.news_ID].date >= from_date}

WithIndicator(rows, indicator_name) ==
    {j \in rows : j.indicator.sustainability_indicator_name = indicator_name}

AnySentiment(rows, max_sentiment) == rows

\* News.sentiment <= max_sentiment
UpToSentiment(rows, max_sentiment) ==
    {j \in rows : News[j.news_ID].sentiment <= max_sentiment}

Descending(a, b) == a >= b

\* asc
Ascending(a, b) == a <= b

\* order_by(asc(column("sentiment"))): the orders the database can return the rows
\* in; rows of equal sentiment come in any order
OrderBy(rows) ==
    {s \in [1..Cardinality(rows) -> rows] :
        /\ \A i, j \in DOMAIN s : i # j => s[i] # s[j]
        /\ \A i, j \in DOMAIN s :
               i < j => Ascending(News[s[i].news_ID].sentiment, News[s[j].news_ID].sentiment)}

\* Query.all() of a query for one entity: a News row that several rows of the join
\* hold is returned once, where it comes first
RECURSIVE Unique(_, _)
Unique(rows, seen) ==
    IF rows = <<>> THEN <<>>
    ELSE IF Head(rows).news_ID \in seen
         THEN Unique(Tail(rows), seen)
         ELSE <<News[Head(rows).news_ID]>>
                  \o Unique(Tail(rows), seen \cup {Head(rows).news_ID})

\* a float of a result row as a fraction; NULL, which Python gets as None
Fraction(num, den) == [num |-> num, den |-> den]
NoValue == Fraction(0, 0)

SentimentsOf(rows) == {News[j.news_ID].sentiment : j \in rows}

\* func.min, func.max
Least(values) == CHOOSE v \in values : \A u \in values : v <= u
Greatest(values) == CHOOSE v \in values : \A u \in values : v >= u

RECURSIVE SumOfSentiments(_)
SumOfSentiments(rows) ==
    IF rows = {} THEN 0
    ELSE LET j == CHOOSE j \in rows : TRUE
         IN News[j.news_ID].sentiment + SumOfSentiments(rows \ {j})

MidOfExtremes(rows) == Fraction(Least(SentimentsOf(rows)) + Greatest(SentimentsOf(rows)), 2)

\* func.avg(News.sentiment): the sum over the rows of the join by their number
Avg(rows) == Fraction(SumOfSentiments(rows), Cardinality(rows))

\* query(func.min, func.avg, func.max) ... .one(), returned as (min_sentiment,
\* avg_sentiment, max_sentiment): an aggregate query has one result row, of NULLs
\* when no row of the join passes the filter
Aggregates(rows) ==
    IF rows = {}
    THEN <<NoValue, NoValue, NoValue>>
    ELSE <<Fraction(Least(SentimentsOf(rows)), 1), Avg(rows),
           Fraction(Greatest(SentimentsOf(rows)), 1)>>

get_sentiment_stats_by_company_and_date_range(company_name, max_sentiment, from_date) ==
    Aggregates(UpToSentiment(Filtered(company_name, from_date), max_sentiment))

get_sentiment_stats_by_company_indicator_and_date_range(company_name, max_sentiment, indicator_name, from_date) ==
    Aggregates(UpToSentiment(WithIndicator(Filtered(company_name, from_date), indicator_name), max_sentiment))

\* Query.first(): the first row of the order, or None
First(rows) == IF rows = <<>> THEN <<>> ELSE <<News[rows[1].news_ID]>>

\* the lists the query can return
get_news_by_company_and_date_range(company_name, max_sentiment, from_date) ==
    {Unique(s, {}) :
        s \in OrderBy(UpToSentiment(Filtered(company_name, from_date), max_sentiment))}

get_news_by_company_indicator_and_date_range(company_name, indicator_name, max_sentiment, from_date) ==
    {Unique(s, {}) :
        s \in OrderBy(UpToSentiment(WithIndicator(Filtered(company_name, from_date),
                                                  indicator_name), max_sentiment))}

get_news_with_lowest_sentiment_by_company_and_date_range(company_name, from_date) ==
    {First(s) : s \in OrderBy(Filtered(company_name, from_date))}

get_news_with_lowest_sentiment_by_company_indicator_and_date_range(company_name, indicator_name, from_date) ==
    {First(s) : s \in OrderBy(WithIndicator(Filtered(company_name, from_date),
                                            indicator_name))}

\* does_exist(company_name=..., date_range=...): 400 for a value that is not given,
\* 404 for one that is not known, 200 stands for no exception
does_exist(company_name, date_range) ==
    IF company_name = <<>> \/ date_range = "" THEN 400
    ELSE IF ~ CompanyExists(company_name) THEN 404
         ELSE IF date_range \notin DOMAIN date_ranges THEN 404
              ELSE 200

\* does_exist(indicator_name=...), called for a given indicator_name only
indicator_does_exist(indicator_name) ==
    IF indicator_name \in Sustainability_indicator THEN 200 ELSE 404

Reply(request, args, status, body) ==
    /\ response' = [request |-> request, args |-> args, status |-> status, body |-> body]
    /\ UNCHANGED <<storeVars, cycleVars, bulkVars, hostVars, depth, writes>>

\* GET /news
get_news(company_name, date_range, max_sentiment, indicator_name) ==
    LET args == [company_name |-> company_name, synonym_name |-> <<>>,
                 date_range |-> date_range, max_sentiment |-> max_sentiment,
                 indicator_name |-> indicator_name]
    IN IF does_exist(company_name, date_range) # 200
       THEN Reply("get_news", args, does_exist(company_name, date_range), <<>>)
       ELSE IF indicator_name = ""
            THEN \E body \in get_news_by_company_and_date_range(
                                 company_name, max_sentiment, date_ranges[date_range]) :
                     Reply("get_news", args, 200, body)
            ELSE IF indicator_does_exist(indicator_name) # 200
                 THEN Reply("get_news", args, indicator_does_exist(indicator_name), <<>>)
                 ELSE \E body \in get_news_by_company_indicator_and_date_range(
                                      company_name, indicator_name, max_sentiment,
                                      date_ranges[date_range]) :
                          Reply("get_news", args, 200, body)

\* len(...) > 0 of the list the query of the same name returns
do_news_exist_by_company_and_date_range(company_name, from_date, max_sentiment) ==
    {<<Len(list) > 0>> :
        list \in get_news_by_company_and_date_range(company_name, max_sentiment, from_date)}

do_news_exist_by_company_indicator_and_date_range(company_name, from_date, indicator_name, max_sentiment) ==
    {<<Len(list) > 0>> :
        list \in get_news_by_company_indicator_and_date_range(
                     company_name, indicator_name, max_sentiment, from_date)}

\* GET /do_news_exist: does_exist is called for company_name and date_range only
do_news_exist(company_name, date_range, max_sentiment, indicator_name) ==
    LET args == [company_name |-> company_name, synonym_name |-> <<>>,
                 date_range |-> date_range, max_sentiment |-> max_sentiment,
                 indicator_name |-> indicator_name]
    IN IF does_exist(company_name, date_range) # 200
       THEN Reply("do_news_exist", args, does_exist(company_name, date_range), <<>>)
       ELSE IF indicator_name = ""
            THEN \E body \in do_news_exist_by_company_and_date_range(
                                 company_name, date_ranges[date_range], max_sentiment) :
                     Reply("do_news_exist", args, 200, body)
            ELSE \E body \in do_news_exist_by_company_indicator_and_date_range(
                                 company_name, date_ranges[date_range], indicator_name,
                                 max_sentiment) :
                     Reply("do_news_exist", args, 200, body)

\* GET /news_minimum
get_news_with_lowest_sentiment(company_name, date_range, indicator_name) ==
    LET args == [company_name |-> company_name, synonym_name |-> <<>>,
                 date_range |-> date_range, max_sentiment |-> 0,
                 indicator_name |-> indicator_name]
    IN IF does_exist(company_name, date_range) # 200
       THEN Reply("get_news_with_lowest_sentiment", args,
                  does_exist(company_name, date_range), <<>>)
       ELSE IF indicator_name = ""
            THEN \E body \in get_news_with_lowest_sentiment_by_company_and_date_range(
                                 company_name, date_ranges[date_range]) :
                     Reply("get_news_with_lowest_sentiment", args, 200, body)
            ELSE IF indicator_does_exist(indicator_name) # 200
                 THEN Reply("get_news_with_lowest_sentiment", args,
                            indicator_does_exist(indicator_name), <<>>)
                 ELSE \E body \in
                          get_news_with_lowest_sentiment_by_company_indicator_and_date_range(
                              company_name, indicator_name, date_ranges[date_range]) :
                          Reply("get_news_with_lowest_sentiment", args, 200, body)

(***************************************************************************)
(* The pipeline beside the API.                                            *)
(***************************************************************************)
\* config.yaml and the GPU: memory in halves of a GiB, vram per process in halves
\* of a GB
Hosts ==
    [use_cuda : BOOLEAN, cuda_is_available : BOOLEAN, total_memory : 0..MaxMemory,
     vram_gb_per_analysis_multiprocess : 1..MaxVram]

\* the stores the write requests can have built before the cycle starts
Companies0 == {<<>>, <<CompanyRow(Ab)>>, <<CompanyRow(Ab), CompanyRow(Cd)>>}
Synonyms0(companies) ==
    {<<>>} \cup {<<SynonymRow(companies[k].name, n)>> :
                     k \in DOMAIN companies, n \in SynonymNames}

InitStore ==
    /\ Company \in Companies0
    /\ Synonym \in Synonyms0(Company)
    /\ News = <<>>
    /\ contains = {}
    /\ News_indicator = {}
    /\ Sustainability_indicator = Indicators

NoBulk == [used_threads_amount |-> -1, news_chunks |-> <<>>]

InitBulk ==
    /\ search_items = <<>>
    /\ max_thread_amount = 0
    /\ bulk = NoBulk
    /\ searched = <<>>

(***************************************************************************)
(* NewsAnalysisDAO.__init__: api.py and news_text_analysis.py are programs *)
(* of their own; _lock and _engine are attributes of the class of one      *)
(* program.                                                                *)
(***************************************************************************)
Programs == {"api", "analysis"}

\* the members of Indicators in the order of the enum
IndicatorsInOrder == <<"Biodiversity", "Disclosure">>

NoHandle == [pc |-> "none", add_indicators_to_db |-> FALSE, _engine |-> FALSE,
             seeded |-> 0, handles |-> 0]

\* every program has constructed a NewsAnalysisDAO on a store that existed
StoreOpened ==
    /\ db_file = "tables"
    /\ dao = [p \in Programs |-> [NoHandle EXCEPT !._engine = TRUE, !.handles = 1]]

\* line 55: NewsAnalysisDAO() is called, the lock of the program is taken
Construct(p) ==
    /\ dao[p].pc = "none"
    /\ dao[p].handles < MaxHandles
    /\ dao' = [dao EXCEPT ![p].pc = "exists", ![p].add_indicators_to_db = FALSE,
                          ![p].seeded = 0]
    /\ UNCHANGED <<storeVars, cycleVars, apiVars, bulkVars, depth, active_children,
                   host, db_file>>

\* line 62: os.path.exists(DB_PATH)
PathExists(p) ==
    /\ dao[p].pc = "exists"
    /\ dao' = [dao EXCEPT ![p].pc = IF db_file = "missing" THEN "open" ELSE "engine"]
    /\ UNCHANGED <<storeVars, cycleVars, apiVars, bulkVars, depth, active_children,
                   host, db_file>>

\* lines 63-64: open(DB_PATH, "w").close() leaves a file of no bytes, whatever it held
OpenFile(p) ==
    /\ dao[p].pc = "open"
    /\ db_file' = "empty"
    /\ Company' = <<>>
    /\ Synonym' = <<>>
    /\ News' = <<>>
    /\ contains' = {}
    /\ News_indicator' = {}
    /\ Sustainability_indicator' = {}
    /\ dao' = [dao EXCEPT ![p].pc = "engine", ![p].add_indicators_to_db = TRUE]
    /\ UNCHANGED <<cycleVars, apiVars, bulkVars, depth, active_children, host>>

\* lines 67-68: the engine of the program is built once; create_all makes the tables
\* that are not there
BuildEngine(p) ==
    /\ dao[p].pc = "engine"
    /\ db_file' = IF dao[p]._engine THEN db_file ELSE "tables"
    /\ dao' = [dao EXCEPT ![p].pc = "seed", ![p]._engine = TRUE]
    /\ UNCHANGED <<storeVars, cycleVars, apiVars, bulkVars, depth, active_children, host>>

\* create_sustainability_indicator: a name that is stored, or a file without the
\* table, refuses the INSERT; the refusal is logged, not raised
create_sustainability_indicator(sustainability_indicator_name) ==
    IF db_file = "tables"
    THEN Sustainability_indicator \cup {sustainability_indicator_name}
    ELSE Sustainability_indicator

\* lines 70-71: one indicator of the enum after the other, each in a session of its own
Seed(p) ==
    /\ dao[p].pc = "seed"
    /\ dao[p].add_indicators_to_db
    /\ dao[p].seeded < Len(IndicatorsInOrder)
    /\ Sustainability_indicator' =
           create_sustainability_indicator(IndicatorsInOrder[dao[p].seeded + 1])
    /\ dao' = [dao EXCEPT ![p].seeded = @ + 1]
    /\ UNCHANGED <<Company, Synonym, News, contains, News_indicator, cycleVars, apiVars,
                   bulkVars, depth, active_children, host, db_file>>

\* __init__ returns and the lock is released
Constructed(p) ==
    /\ dao[p].pc = "seed"
    /\ dao[p].add_indicators_to_db => dao[p].seeded = Len(IndicatorsInOrder)
    /\ dao' = [dao EXCEPT ![p].pc = "none", ![p].handles = @ + 1]
    /\ UNCHANGED <<storeVars, cycleVars, apiVars, bulkVars, depth, active_children,
                   host, db_file>>

\* start_analysis has called _analyze_and_cycle, no cycle has run
InitCycle ==
    /\ cycle = "idle"
    /\ received_news_list = <<>>
    /\ results = <<>>
    /\ pool_size = 1
    /\ proc = [w \in Procs |-> OffProc]
    /\ map_error = None
    /\ depth = 1
    /\ active_children = 0

\* use_cuda is off
CpuHost == [use_cuda |-> FALSE, cuda_is_available |-> FALSE, total_memory |-> 0,
            vram_gb_per_analysis_multiprocess |-> 6]

\* use_cuda is on and the GPU has memory for 2..MaxProcs processes of 3 GB
CudaHosts ==
    {[use_cuda |-> TRUE, cuda_is_available |-> TRUE, total_memory |-> 6 * k,
      vram_gb_per_analysis_multiprocess |-> 6] : k \in 2..MaxProcs}

Init ==
    /\ InitStore
    /\ InitCycle
    /\ host = CpuHost
    /\ StoreOpened
    /\ response = NoResponse
    /\ writes = 0
    /\ InitBulk

InitCuda ==
    /\ InitStore
    /\ InitCycle
    /\ host \in CudaHosts
    /\ StoreOpened
    /\ response = NoResponse
    /\ writes = 0
    /\ InitBulk

\* the lists the search can return
Batches == SeqsUpTo(Articles, MaxArticles)

WriteNames == CompanyNames \cup {<<>>}

Writes ==
    \/ \E c \in WriteNames : create_company(c)
    \/ \E c \in WriteNames : delete_company(c)
    \/ \E c \in WriteNames, n \in SynonymNames \cup {<<>>} : create_synonym(c, n)
    \/ \E c \in WriteNames, n \in SynonymNames \cup {<<>>} : delete_synonym(c, n)

\* the write requests with every parameter given: the others are answered
\* without a change of the store
WellFormedWrites ==
    \/ \E c \in CompanyNames : create_company(c)
    \/ \E c \in CompanyNames : delete_company(c)
    \/ \E c \in CompanyNames, n \in SynonymNames : create_synonym(c, n)
    \/ \E c \in CompanyNames, n \in SynonymNames : delete_synonym(c, n)

Analysis ==
    \/ EndCycle
    \/ \E w \in Procs : TakeTask(w)
    \/ \E w \in Procs : Recognize(w)
    \/ \E w \in Procs : Lookup(w)
    \/ \E w \in Procs : Classify(w)
    \/ \E w \in Procs : Relevancy(w)
    \/ \E w \in Procs : CreateNews(w)
    \/ \E w \in Procs : AddCompany(w)
    \/ \E w \in Procs : SaveIndicator(w)

\* without CUDA the pool has one process: the articles are analyzed one by one
Next ==
    \/ StartCycle(Batches)
    \/ Analysis
    \/ WellFormedWrites

Spec == Init /\ [][Next]_vars

\* with CUDA the pool has as many processes as the memory of the GPU allows
NextCuda ==
    \/ StartCycle(Batches)
    \/ Analysis
    \/ WellFormedWrites

\* one cycle beside every write request, the ones without a name among them
NextApi ==
    \/ StartCycle(Batches)
    \/ Analysis
    \/ Writes

SpecApi == Init /\ [][NextApi]_vars

\* the search returns one entry at most
ShortBatches == {<<>>} \cup {<<news>> : news \in Articles}

\* every write request beside a cycle of one article at most
NextWrites ==
    \/ StartCycle(ShortBatches)
    \/ Analysis
    \/ Writes

SpecWrites == Init /\ [][NextWrites]_vars

SpecCuda == InitCuda /\ [][NextCuda]_vars

\* one cycle after the other, the store left alone by the API
NextLoop ==
    \/ StartCycle(Batches)
    \/ Analysis
    \/ Tick
    \/ Overflow

SpecLoop == Init /\ [][NextLoop]_vars

\* the search returns more entries than four times the processes of the pool:
\* Pool.map hands the entries out in chunks of two
LongBatches == [1..MaxBatch -> Articles]

NextBatch ==
    \/ StartCycle(LongBatches)
    \/ Analysis

SpecBatch == Init /\ [][NextBatch]_vars

\* the cycles beside child processes that are not of the pool
NextSched ==
    \/ StartCycle(Batches)
    \/ Analysis
    \/ Skip
    \/ Tick
    \/ Overflow
    \/ ChildStarts
    \/ ChildExits

SpecSched == Init /\ [][NextSched]_vars

\* the values the read requests are sent with
ReadCompanies == CompanyNames \cup {<<>>}
ReadRanges == {"Heute", "Insgesamt", "Morgen"}
ReadSentiments == {3, 10}
ReadIndicators == {"", "Biodiversity", "Unknown"}

\* The read requests are followed one at a time: a read request changes nothing but
\* its response.
Reads ==
    /\ response = NoResponse
    /\ \/ \E c \in ReadCompanies, r \in ReadRanges, s \in ReadSentiments,
             i \in ReadIndicators :
               get_news(c, r, s, i)
       \/ \E c \in ReadCompanies, r \in ReadRanges, i \in ReadIndicators :
               get_news_with_lowest_sentiment(c, r, i)

\* the response has been sent
Sent ==
    /\ response # NoResponse
    /\ response' = NoResponse
    /\ UNCHANGED <<storeVars, cycleVars, bulkVars, hostVars, depth, writes>>

\* one cycle beside the read requests of the API
NextRead ==
    \/ StartCycle(Batches)
    \/ Analysis
    \/ Reads
    \/ Sent

SpecRead == Init /\ [][NextRead]_vars

\* one cycle and nothing beside it
NextIngest ==
    \/ StartCycle(Batches)
    \/ Analysis

SpecIngest == Init /\ [][NextIngest]_vars

\* one cycle beside the requests for the existence of news
ExistReads ==
    /\ response = NoResponse
    /\ \E c \in ReadCompanies, r \in ReadRanges, s \in ReadSentiments,
          i \in ReadIndicators :
            do_news_exist(c, r, s, i)

NextExist ==
    \/ StartCycle(Batches)
    \/ Analysis
    \/ ExistReads
    \/ Sent

SpecExist == Init /\ [][NextExist]_vars

StatsIndicators == {"Biodiversity", "Disclosure", "Unknown"}

(***************************************************************************)
(* GET /indicator_stats                                                    *)
(***************************************************************************)
\* the rows of Sustainability_indicator in table order, the order of the seeding
get_all_sustainability_indicators ==
    SelectSeq(IndicatorsInOrder, LAMBDA name : name \in Sustainability_indicator)

\* the truth value of an aggregate in an if: None and 0 are false
Truth(value) == value # NoValue /\ value.num # 0

IndicatorStats(indicator_name, sentiment_stats) ==
    [indicator_name |-> indicator_name, indicator_min |-> sentiment_stats[1],
     indicator_avg |-> sentiment_stats[2], indicator_max |-> sentiment_stats[3]]

\* lines 215-225 and 228-237: the entry of one indicator after the other
RECURSIVE StatsOfEach(_, _, _, _)
StatsOfEach(indicators, company_name, max_sentiment, from_date) ==
    IF indicators = <<>> THEN <<>>
    ELSE LET sentiment_stats ==
                 get_sentiment_stats_by_company_indicator_and_date_range(
                     company_name, max_sentiment, Head(indicators), from_date)
         IN (IF /\ Truth(sentiment_stats[1])
                /\ Truth(sentiment_stats[2])
                /\ Truth(sentiment_stats[3])
             THEN <<IndicatorStats(Head(indicators), sentiment_stats)>>
             ELSE <<>>)
            \o StatsOfEach(Tail(indicators), company_name, max_sentiment, from_date)

\* the handler returns a list, so none_to_error never answers 404
get_indicator_stats(company_name, date_range, max_sentiment, indicator_name) ==
    LET args == [company_name |-> company_name, synonym_name |-> <<>>,
                 date_range |-> date_range, max_sentiment |-> max_sentiment,
                 indicator_name |-> indicator_name]
    IN IF does_exist(company_name, date_range) # 200
       THEN Reply("get_indicator_stats", args, does_exist(company_name, date_range), <<>>)
       ELSE IF indicator_name = ""
            THEN Reply("get_indicator_stats", args, 200,
                       StatsOfEach(get_all_sustainability_indicators, company_name,
                                   max_sentiment, date_ranges[date_range]))
            ELSE IF indicator_does_exist(indicator_name) # 200
                 THEN Reply("get_indicator_stats", args,
                            indicator_does_exist(indicator_name), <<>>)
                 ELSE Reply("get_indicator_stats", args, 200,
                            StatsOfEach(<<indicator_name>>, company_name, max_sentiment,
                                        date_ranges[date_range]))

\* the store as an earlier cycle has left it: the article 'AbC' of company Ab, with
\* the sentiment 0, Disclosure 0.6 and 'Not Relevant to ESG' 0.2
InitIndicatorStats ==
    /\ Company = <<CompanyRow(Ab)>>
    /\ Synonym = <<SynonymRow(Ab, ab)>>
    /\ News = <<[news_ID |-> 1, title |-> X1, text |-> X1, link |-> <<"u", "1">>,
                 sentiment |-> 0, relevancy_score |-> 8, date |-> 1]>>
    /\ contains = {[news_ID |-> 1, company_name |-> Ab]}
    /\ News_indicator = {[news_ID |-> 1, sustainability_indicator_name |-> "Disclosure",
                          probability |-> 6]}
    /\ Sustainability_indicator = Indicators
    /\ InitCycle
    /\ host = CpuHost
    /\ StoreOpened
    /\ response = NoResponse
    /\ writes = 0
    /\ InitBulk

IndicatorStatsReads ==
    /\ response = NoResponse
    /\ \E c \in ReadCompanies, r \in ReadRanges, s \in ReadSentiments,
          i \in StatsIndicators \cup {""} :
            get_indicator_stats(c, r, s, i)

\* one cycle beside the requests for the statistics of the indicators
NextIndicatorStats ==
    \/ StartCycle(Batches)
    \/ Analysis
    \/ IndicatorStatsReads
    \/ Sent

SpecIndicatorStats == InitIndicatorStats /\ [][NextIndicatorStats]_vars

\* the values the aggregate queries are called with
StatsRanges == {"Heute", "Insgesamt"}

\* The calls of the two aggregate queries of NewsAnalysisDAO, one at a time
StatsReads ==
    /\ response = NoResponse
    /\ \E c \in ReadCompanies, r \in StatsRanges, s \in ReadSentiments :
         \/ Reply("get_sentiment_stats_by_company_and_date_range",
                  [company_name |-> c, synonym_name |-> <<>>, date_range |-> r,
                   max_sentiment |-> s, indicator_name |-> ""], 200,
                  get_sentiment_stats_by_company_and_date_range(c, s, date_ranges[r]))
         \/ \E i \in StatsIndicators :
               Reply("get_sentiment_stats_by_company_indicator_and_date_range",
                     [company_name |-> c, synonym_name |-> <<>>, date_range |-> r,
                      max_sentiment |-> s, indicator_name |-> i], 200,
                     get_sentiment_stats_by_company_indicator_and_date_range(
                         c, s, i, date_ranges[r]))

\* one cycle beside the calls of the aggregate queries
NextStats ==
    \/ StartCycle(Batches)
    \/ Analysis
    \/ StatsReads
    \/ Sent

SpecStats == Init /\ [][NextStats]_vars

\* The size of the pool on every host: no company is stored, the search returns
\* nothing.  Of a pool larger than MaxProcs the first MaxProcs processes are
\* followed; none of them gets a task.
InitPool ==
    /\ Company = <<>>
    /\ Synonym = <<>>
    /\ News = <<>>
    /\ contains = {}
    /\ News_indicator = {}
    /\ Sustainability_indicator = Indicators
    /\ InitCycle
    /\ host \in Hosts
    /\ StoreOpened
    /\ response = NoResponse
    /\ writes = 0
    /\ InitBulk

NextPool ==
    \/ StartCycle({<<>>})
    \/ EndCycle
    \/ Tick
    \/ Overflow

SpecPool == InitPool /\ [][NextPool]_vars

(***************************************************************************)
(* The term partitioning on its own: every list of search terms and every  *)
(* threads_for_news_search within the bounds.                              *)
(***************************************************************************)
InitPartition ==
    /\ Company = <<>>
    /\ Synonym = <<>>
    /\ News = <<>>
    /\ contains = {}
    /\ News_indicator = {}
    /\ Sustainability_indicator = Indicators
    /\ cycle = "idle"
    /\ received_news_list = <<>>
    /\ results = <<>>
    /\ pool_size = 1
    /\ proc = [w \in Procs |-> OffProc]
    /\ map_error = None
    /\ response = NoResponse
    /\ writes = 0
    /\ depth = 1
    /\ active_children = 0
    /\ host = CpuHost
    /\ StoreOpened
    /\ search_items \in SeqsUpTo(SearchTerms, MaxTerms)
    /\ max_thread_amount \in 0..MaxThreads
    /\ bulk = NoBulk
    /\ searched = <<>>

\* lines 105-106: the call
Partition ==
    /\ bulk = NoBulk
    /\ bulk' = _get_thread_amount_and_chunks_for_bulk_search(search_items,
                                                             max_thread_amount)
    /\ UNCHANGED <<storeVars, cycleVars, apiVars, hostVars, depth, search_items,
                   max_thread_amount, searched>>

NextPartition == Partition

SpecPartition == InitPartition /\ [][NextPartition]_vars

(***************************************************************************)
(* The search of one cycle: the terms are read from the store, partitioned *)
(* and every thread calls receive_news_from_api for the terms of its chunk.*)
(***************************************************************************)
\* the synonyms of two companies may have the same name: the key is the pair
SearchSynonyms(companies) ==
    {rows \in SeqsUpTo({SynonymRow(companies[k].name, n) :
                            k \in DOMAIN companies, n \in SynonymNames}, 2) :
        \A i, j \in DOMAIN rows : i # j => rows[i] # rows[j]}

InitSearch ==
    /\ Company \in Companies0
    /\ Synonym \in SearchSynonyms(Company)
    /\ News = <<>>
    /\ contains = {}
    /\ News_indicator = {}
    /\ Sustainability_indicator = Indicators
    /\ InitCycle
    /\ host = CpuHost
    /\ StoreOpened
    /\ response = NoResponse
    /\ writes = 0
    /\ search_items = <<>>
    /\ max_thread_amount \in 0..MaxThreads
    /\ bulk = NoBulk
    /\ searched = <<>>

\* lines 99-106: the terms are read and partitioned
ObtainTerms ==
    /\ bulk = NoBulk
    /\ search_items' = news_topics_to_search_for
    /\ bulk' = _get_thread_amount_and_chunks_for_bulk_search(news_topics_to_search_for,
                                                             max_thread_amount)
    /\ searched' = [j \in DOMAIN bulk'.news_chunks |-> <<>>]
    /\ UNCHANGED <<storeVars, cycleVars, apiVars, hostVars, depth, max_thread_amount>>

\* lines 149-156: a thread calls receive_news_from_api with the next item of its chunk
receive_news_from_api_thread(j) ==
    /\ bulk # NoBulk
    /\ Len(searched[j]) < Len(bulk.news_chunks[j])
    /\ searched' = [searched EXCEPT ![j] = Append(@, bulk.news_chunks[j][Len(@) + 1])]
    /\ UNCHANGED <<storeVars, cycleVars, apiVars, hostVars, depth, search_items,
                   max_thread_amount, bulk>>

NextSearch ==
    \/ ObtainTerms
    \/ \E j \in DOMAIN searched : receive_news_from_api_thread(j)

SpecSearch == InitSearch /\ [][NextSearch]_vars

(***************************************************************************)
(* The two programs are started on a directory without database/db.sqlite. *)
(***************************************************************************)
InitSeed ==
    /\ Company = <<>>
    /\ Synonym = <<>>
    /\ News = <<>>
    /\ contains = {}
    /\ News_indicator = {}
    /\ Sustainability_indicator = {}
    /\ InitCycle
    /\ host = CpuHost
    /\ response = NoResponse
    /\ writes = 0
    /\ InitBulk
    /\ db_file = "missing"
    /\ dao = [p \in Programs |-> NoHandle]

NextSeed ==
    \E p \in Programs :
        \/ Construct(p)
        \/ PathExists(p)
        \/ OpenFile(p)
        \/ BuildEngine(p)
        \/ Seed(p)
        \/ Constructed(p)

SpecSeed == InitSeed /\ [][NextSeed]_vars

\* C1 as stated: for n >= 0 terms and T >= 0 threads the function returns min(n, T)
\* chunks, none when that is 0, and the chunks put one after the other in thread
\* order are the list it was given: no term is left out or given to two threads.
C1_Original ==
    bulk # NoBulk =>
        /\ bulk.used_threads_amount = Min(Len(search_items), max_thread_amount)
        /\ Len(bulk.news_chunks) = bulk.used_threads_amount
        /\ Concat(bulk.news_chunks) = search_items

\* C1 amended: the same for T >= 1; for T = 0 the function returns no chunk, whatever
\* the list holds.
C1_ChunksPartitionTheTerms ==
    bulk # NoBulk =>
        /\ bulk.used_threads_amount = Min(Len(search_items), max_thread_amount)
        /\ Len(bulk.news_chunks) = bulk.used_threads_amount
        /\ \A j \in DOMAIN bulk.news_chunks : bulk.news_chunks[j] # <<>>
        /\ max_thread_amount >= 1 => Concat(bulk.news_chunks) = search_items
        /\ max_thread_amount = 0 => bulk.news_chunks = <<>>

\* a list that does not divide evenly has been partitioned
C1_Witness ==
    /\ bulk # NoBulk
    /\ bulk.used_threads_amount = 3
    /\ Len(search_items) = 4

(***************************************************************************)
(* Ingestion, one article after the other.                                 *)
(***************************************************************************)
\* the News rows that hold the text
RowsWithText(text) == {n \in DOMAIN News : News[n].text = text}

\* C2: no text is held by two News rows, and once an ingestion of an article has
\* returned, exactly one News row holds its text, however often the text has been
\* ingested, in this cycle or in an earlier one.
C2_OneRowPerText ==
    /\ \A n1, n2 \in DOMAIN News : News[n1].text = News[n2].text => n1 = n2
    /\ \A k \in DOMAIN results :
           results[k].outcome = "returned" =>
               Cardinality(RowsWithText(received_news_list[k].article)) = 1

\* an ingestion has returned for an article whose text an earlier ingestion, of
\* another search result, had stored
C2_Witness ==
    \E k \in DOMAIN results :
        /\ results[k].outcome = "returned"
        /\ \E n \in RowsWithText(received_news_list[k].article) :
               News[n].link # received_news_list[k].url

\* the steps of analyze_news_text after the text was found in the store
KnownTextStep(w) ==
    /\ proc'[w] # proc[w]
    /\ \/ proc[w].pc = "attach"
       \/ /\ proc[w].pc = "lookup"
          /\ RowsWithText(NewsOf(w).article) # {}

\* C3: from the lookup that finds the text on, a call of analyze_news_text never
\* reaches the classifier and holds no classifier answer; its steps leave News,
\* News_indicator, Company and Synonym as they are and take no row from contains.
C3_KnownTextOnlyAttaches ==
    [][\A w \in Procs :
          KnownTextStep(w) =>
              /\ proc[w].run = NoRun
              /\ proc'[w].run = NoRun
              /\ proc'[w].pc \in {"attach", "idle", "recognize"}
              /\ proc'[w].pc = "attach" => proc'[w].task = proc[w].task
              /\ News' = News
              /\ News_indicator' = News_indicator
              /\ Company' = Company
              /\ Synonym' = Synonym
              /\ Sustainability_indicator' = Sustainability_indicator
              /\ contains \subseteq contains'
              /\ \A row \in contains' \ contains :
                     /\ row.news_ID \in RowsWithText(NewsOf(w).article)
                     /\ row.company_name \in Range(proc[w].recognized_company_names)]_vars

\* the second ingestion of a text has attached a company that was created after the
\* first one
C3_Witness ==
    \E k1, k2 \in DOMAIN results :
        /\ k1 < k2
        /\ received_news_list[k1].article = received_news_list[k2].article
        /\ results[k1].outcome = "returned"
        /\ results[k2].outcome = "returned"
        /\ \E c \in Range(results[k2].recognized) \ Range(results[k1].recognized) :
               \E n \in RowsWithText(received_news_list[k2].article) :
                   [news_ID |-> n, company_name |-> c] \in contains

\* the probability the classifier gave the label in the answer, if it gave one
ProbabilitiesOf(run, label) == {run.probs[k] : k \in {m \in DOMAIN run.labels : run.labels[m] = label}}

\* the step of some process inserts a News row
NewsCreatedBy(w) ==
    /\ proc[w].pc = "create_news"
    /\ proc'[w].pc = "add_companies"
    /\ proc'[w].new_news = Len(News')

\* C6: the News table only grows, a row at a time and without a change to the rows it
\* holds, and the row a call of analyze_news_text inserts holds the article's text
\* and, as relevancy_score, 1 (Scale tenths) minus the probability the classifier
\* gave "Not Relevant to ESG" in its answer for that article.
C6_RelevancyIsOneMinusNotRelevant ==
    [][/\ Len(News') \in {Len(News), Len(News) + 1}
       /\ \A n \in DOMAIN News : News'[n] = News[n]
       /\ Len(News') = Len(News) + 1 =>
              \E w \in Procs :
                  /\ NewsCreatedBy(w)
                  /\ News'[Len(News')].text = NewsOf(w).article
                  /\ ProbabilitiesOf(proc[w].run, NotRelevant) =
                         {Scale - News'[Len(News')].relevancy_score}]_vars

\* a row was inserted for an article that the classifier thinks is not relevant with
\* probability 0.9
C6_Witness ==
    \E w \in Procs :
        /\ proc[w].pc = "add_companies"
        /\ ProbabilitiesOf(proc[w].run, NotRelevant) = {9}
        /\ News[proc[w].new_news].relevancy_score = 1

\* the classifier's answer that process w holds lacks the label
LabelMissing(w) == ProbabilitiesOf(proc[w].run, NotRelevant) = {}

\* C7: a call of analyze_news_text whose classifier answer lacks "Not Relevant to ESG"
\* ends at the relevancy derivation with LabelNotFoundException and without a write
\* to the store; no call holding such an answer gets to create_news or beyond, with
\* whatever relevancy score.
C7_MissingLabelIsFatal ==
    /\ [](\A w \in Procs :
              proc[w].pc \in {"create_news", "add_companies", "indicators"} =>
                  ~ LabelMissing(w))
    /\ [][\A w \in Procs :
              (proc[w].pc = "relevancy" /\ LabelMissing(w) /\ proc'[w].pc # "relevancy") =>
                  /\ results'[proc[w].task].outcome = LabelNotFound
                  /\ proc'[w].pc = "idle"
                  /\ proc'[w].relevancy_score = NoScore
                  /\ map_error' # None
                  /\ News' = News
                  /\ contains' = contains
                  /\ News_indicator' = News_indicator]_vars

\* an ingestion has ended with LabelNotFoundException and its text is in no News row
C7_Witness ==
    \E k \in DOMAIN results :
        /\ results[k].outcome = LabelNotFound
        /\ RowsWithText(received_news_list[k].article) = {}

\* the companies whose name, or one of whose synonyms, is in the text
NamedIn(text) ==
    {c \in {Company[k].name : k \in DOMAIN Company} :
        \/ IsIn(c, text)
        \/ \E k \in DOMAIN Synonym :
               Synonym[k].company_name = c /\ IsIn(Synonym[k].name, text)}

\* C10: the list recognize_companies returns for a text holds exactly the companies
\* whose name or one of whose synonyms is in the text, case-sensitively, each of
\* them once; NoRelevantCompaniesInNewsTextException is raised if and only if there is
\* no such company.
C10_RecognizedAreTheNamed ==
    [][\A w \in Procs :
          (proc[w].pc = "recognize" /\ proc'[w].pc # "recognize") =>
              LET text == NewsOf(w).article
                  k == proc[w].task
              IN IF NamedIn(text) = {}
                 THEN /\ results'[k].outcome = NoRelevantCompanies
                      /\ proc'[w].pc = "idle"
                 ELSE /\ proc'[w].pc = "lookup"
                      /\ results'[k].outcome = "pending"
                      /\ Range(proc'[w].recognized_company_names) = NamedIn(text)
                      /\ Len(proc'[w].recognized_company_names) =
                             Cardinality(NamedIn(text))]_vars

\* a text that holds a synonym of Ab, and the name of no company, was recognized
\* with Ab
C10_Witness ==
    \E w \in Procs :
        /\ proc[w].pc = "lookup"
        /\ NewsOf(w).article = X2
        /\ ~ IsIn(Ab, X2)
        /\ proc[w].recognized_company_names = <<Ab>>

(***************************************************************************)
(* Ingestion by a pool of several processes.                               *)
(***************************************************************************)
\* the call has got past recognition and relevancy derivation, or is still running
Attempted(k) ==
    results[k].outcome \notin {"skipped", NoRelevantCompanies, LabelNotFound}

\* C4: when pool.map is over, two entries of the list with the same text, both
\* analyzed, have left exactly one News row with the text, and every company that
\* either call recognized, and that still exists, is attached to that row.
C4_BothSetsAttached ==
    cycle \in {"done", "crashed"} =>
        \A k1, k2 \in DOMAIN results :
            (/\ k1 < k2
             /\ received_news_list[k1].article = received_news_list[k2].article
             /\ Attempted(k1)
             /\ Attempted(k2)) =>
                /\ Cardinality(RowsWithText(received_news_list[k1].article)) = 1
                /\ \A c \in Range(results[k1].recognized) \cup Range(results[k2].recognized) :
                       CompanyExists(c) =>
                           \E n \in RowsWithText(received_news_list[k1].article) :
                               [news_ID |-> n, company_name |-> c] \in contains

\* C5: the call whose INSERT the uniqueness of News.text refused goes on as a call
\* for a known text does and returns: no entry of the list ends with an error other
\* than the two the analysis raises itself, and pool.map re-raises no other one.
C5_LoserReturns ==
    /\ \A k \in DOMAIN results : results[k].outcome # AttributeError
    /\ map_error # AttributeError
    /\ cycle # "crashed" \/ map_error = LabelNotFound

(***************************************************************************)
(* The filtered reads.                                                     *)
(***************************************************************************)
\* the step answers a request for request with 200
Answered(request) ==
    /\ response = NoResponse
    /\ response'.request = request
    /\ response'.status = 200

\* the News rows that meet the four predicates: sentiment, relevancy, date, company
MeetsFour(company_name, from_date, max_sentiment) ==
    {News[n] : n \in {m \in DOMAIN News :
        /\ News[m].sentiment <= max_sentiment
        /\ News[m].relevancy_score >= news_are_relevant_threshold
        /\ News[m].date >= from_date
        /\ [news_ID |-> m, company_name |-> company_name] \in contains}}

\* the row has a News_indicator row of at least the threshold, for the indicator if
\* one is given
HasIndicator(row, indicator_name) ==
    \E r \in News_indicator :
        /\ r.news_ID = row.news_ID
        /\ r.probability >= indicator_belongs_to_news_threshold
        /\ indicator_name # "" => r.sustainability_indicator_name = indicator_name

\* C8 as stated: get_news without indicator_name returns exactly the News rows that
\* meet the four predicates.
C8_Original ==
    [][(Answered("get_news") /\ response'.args.indicator_name = "") =>
           Range(response'.body) =
               MeetsFour(response'.args.company_name,
                         date_ranges[response'.args.date_range],
                         response'.args.max_sentiment)]_vars

\* C8 amended: get_news without indicator_name returns, each once, exactly the News
\* rows that meet the four predicates and have a News_indicator row whose
\* probability is at least indicator_belongs_to_news_threshold.
C8_FourPredicatesAndAnIndicator ==
    [][(Answered("get_news") /\ response'.args.indicator_name = "") =>
           /\ Range(response'.body) =
                  {row \in MeetsFour(response'.args.company_name,
                                     date_ranges[response'.args.date_range],
                                     response'.args.max_sentiment) :
                      HasIndicator(row, "")}
           /\ \A i, j \in DOMAIN response'.body :
                  response'.body[i] = response'.body[j] => i = j]_vars

\* get_news has returned one News row of the company and left out another one that
\* meets the four predicates
C8_Witness ==
    /\ response.request = "get_news"
    /\ response.status = 200
    /\ response.args.indicator_name = ""
    /\ response.body # <<>>
    /\ \E row \in MeetsFour(response.args.company_name,
                            date_ranges[response.args.date_range],
                            response.args.max_sentiment) :
           row \notin Range(response.body)

\* the News rows the lowest-sentiment read chooses from
LowestFrom(company_name, from_date, indicator_name) ==
    {row \in MeetsFour(company_name, from_date, Scale) : HasIndicator(row, indicator_name)}

\* C9: the list get_news returns, with or without indicator_name, is in the order of
\* non-decreasing sentiment; get_news_with_lowest_sentiment returns nothing if no News
\* row passes its filters, and else one of them whose sentiment none of them is below.
C9_AscendingSentiment ==
    [][/\ Answered("get_news") =>
              \A i, j \in DOMAIN response'.body :
                  i < j => response'.body[i].sentiment <= response'.body[j].sentiment
       /\ Answered("get_news_with_lowest_sentiment") =>
              LET from == LowestFrom(response'.args.company_name,
                                     date_ranges[response'.args.date_range],
                                     response'.args.indicator_name)
              IN IF from = {}
                 THEN response'.body = <<>>
                 ELSE /\ Len(response'.body) = 1
                      /\ response'.body[1] \in from
                      /\ \A row \in from :
                             response'.body[1].sentiment <= row.sentiment]_vars

\* get_news has returned two News rows of different sentiment
C9_Witness ==
    /\ response.request = "get_news"
    /\ response.status = 200
    /\ Len(response.body) = 2
    /\ response.body[1].sentiment < response.body[2].sentiment

(***************************************************************************)
(* C11  The pool has one process when use_cuda is off or no GPU memory is  *)
(* detected, whatever vram_gb_per_analysis_multiprocess is; otherwise it   *)
(* has max(1, floor(memory in GB / GB per process)) processes, 3 for 9 GB  *)
(* and 3 GB per process.                                                   *)
(***************************************************************************)
\* the memory the GPU reports, in GB: 0 without GPU
DetectedGb(g) ==
    /\ g \in 0..MaxMemory
    /\ IF host.cuda_is_available
       THEN 2 * (g - 1) < host.total_memory /\ host.total_memory <= 2 * g
       ELSE g = 0

\* q = floor(g / per process), the GB per process counted in halves
FloorOfRatio(q, g) ==
    /\ q \in 0..(2 * MaxMemory)
    /\ q * host.vram_gb_per_analysis_multiprocess <= 2 * g
    /\ 2 * g < (q + 1) * host.vram_gb_per_analysis_multiprocess

PoolCreated == cycle = "idle" /\ cycle' = "fanout"

C11_PoolSizeFromGpuMemory ==
    [][PoolCreated =>
         \E g \in 0..MaxMemory :
            /\ DetectedGb(g)
            /\ IF ~host.use_cuda \/ g = 0
               THEN pool_size' = 1
               ELSE \E q \in 0..(2 * MaxMemory) :
                       /\ FloorOfRatio(q, g)
                       /\ pool_size' = IF q >= 1 THEN q ELSE 1]_vars

\* 9 GB (after 8.5 GiB were rounded up) and 3 GB per process: 3 processes
C11_Witness ==
    /\ cycle = "fanout"
    /\ host.use_cuda /\ host.cuda_is_available
    /\ host.total_memory = 17
    /\ host.vram_gb_per_analysis_multiprocess = 6
    /\ pool_size = 3

(***************************************************************************)
(* C12  POST /companies with the empty name is answered as malformed input *)
(* (400, as _valid_params answers an empty parameter) and table Company is *)
(* left as it is.                                                          *)
(***************************************************************************)
\* the step answers a write request for the company name
Wrote(request, company_name) ==
    /\ writes' = writes + 1
    /\ response'.request = request
    /\ response'.args.company_name = company_name

C12_EmptyNameIsMalformedInput ==
    [][Wrote("create_company", <<>>) => response'.status = 400 /\ Company' = Company]_vars

(***************************************************************************)
(* C13  When child processes are alive as _analyze_and_cycle is called,    *)
(* the call does not run analyze_api_news_for_each_company and the timer   *)
(* of the next call is still set; a cycle starts only while no cycle runs  *)
(* and no child is alive, and after a skipped call comes one call, not one *)
(* for every call that was skipped.                                        *)
(***************************************************************************)
CycleMoves == cycle' # cycle

SkipsWhileChildrenLive ==
    cycle = "idle" /\ active_children > 0 /\ CycleMoves
        => /\ cycle' = "skipped"
           /\ UNCHANGED <<storeVars, received_news_list, results, proc, map_error>>

OneCycleAtATime ==
    cycle' = "fanout" /\ CycleMoves
        => /\ cycle = "idle"
           /\ active_children = 0
           /\ \A w \in Procs : proc[w].pc = "off"

OneCallAfterSkip ==
    cycle = "skipped" /\ CycleMoves
        => cycle' \in {"idle", RecursionError} /\ received_news_list' = <<>>

TimerSetAfterSkip == cycle = "skipped" => ENABLED Tick \/ ENABLED Overflow

C13_SkipsWhileChildrenLive ==
    /\ [] TimerSetAfterSkip
    /\ [][SkipsWhileChildrenLive /\ OneCycleAtATime /\ OneCallAfterSkip]_vars

\* a call was skipped after a cycle that stored a row
C13_Witness == cycle = "skipped" /\ active_children > 0 /\ News # <<>>

(***************************************************************************)
(* C14  When a cycle has ended with an exception that                      *)
(* analyze_api_news_for_each_company does not catch, the timer of the next *)
(* call of _analyze_and_cycle is set all the same.                         *)
(***************************************************************************)
\* the fan-out of the cycle is over and has raised something else than
\* NoRelevantCompaniesInNewsTextException
EndedWithUnhandled ==
    /\ cycle \notin {"idle", "fanout"}
    /\ map_error \in {LabelNotFound, AttributeError}

C14_TimerSetAfterUnhandledError == EndedWithUnhandled => ENABLED Tick \/ ENABLED Overflow

(***************************************************************************)
(* C15  After every call of _analyze_and_cycle that has run or skipped its *)
(* cycle the next call follows, however many calls came before.            *)
(***************************************************************************)
C15_NextCallAlwaysFollows == cycle \in {"done", "skipped"} => ENABLED Tick

(***************************************************************************)
(* C16  When no call of a cycle has raised anything but                    *)
(* NoRelevantCompaniesInNewsTextException, every entry of                  *)
(* received_news_list has been analyzed by the end of the cycle and the    *)
(* cycle has ended without exception.                                      *)
(***************************************************************************)
CycleOver == cycle \in {"done", "crashed"}

OnlyNoRelevantCompaniesRaised ==
    \A k \in DOMAIN results :
        results[k].outcome \notin {LabelNotFound, AttributeError}

C16_NoRelevantCompaniesSparesTheOthers ==
    CycleOver /\ OnlyNoRelevantCompaniesRaised
        => /\ cycle = "done"
           /\ \A k \in DOMAIN results : results[k].outcome # "skipped"

(***************************************************************************)
(* C17  Once a call of the cycle has raised an exception other than        *)
(* NoRelevantCompaniesInNewsTextException, no process of the pool takes a  *)
(* further entry of received_news_list and no News row is added; the rows  *)
(* stored before stay.                                                     *)
(***************************************************************************)
FatalRaised == cycle = "fanout" /\ map_error \in {LabelNotFound, AttributeError}

NoTaskTaken == \A w \in Procs : proc[w].pc = "idle" => proc'[w].pc \in {"idle", "off"}

C17_FatalErrorEndsFanOut ==
    [][FatalRaised => NoTaskTaken /\ News' = News]_vars

(***************************************************************************)
(* C18  Whenever no call of analyze_news_text is running, every News row   *)
(* has at least one contains row.                                          *)
(***************************************************************************)
NoCallRunning == \A w \in Procs : proc[w].pc \in {"idle", "off"}

CompaniesOfNews(news_ID) == {row \in contains : row.news_ID = news_ID}

C18_EveryNewsRowHasACompany ==
    NoCallRunning => \A n \in NewsIds : CompaniesOfNews(n) # {}

(***************************************************************************)
(* C19  After DELETE /companies was answered 200 for a company, no Synonym *)
(* row and no contains row names the company; the News, News_indicator and *)
(* Sustainability_indicator rows and the rows of the other companies are   *)
(* as they were.                                                           *)
(***************************************************************************)
OfOthers(rows, company_name) == SelectSeq(rows, LAMBDA row : row.company_name # company_name)

DeletedWithItsRows(c) ==
    /\ \A k \in DOMAIN Synonym' : Synonym'[k].company_name # c
    /\ \A row \in contains' : row.company_name # c
    /\ ~ \E k \in DOMAIN Company' : Company'[k].name = c

OthersKept(c) ==
    /\ Synonym' = OfOthers(Synonym, c)
    /\ contains' = {row \in contains : row.company_name # c}
    /\ Company' = SelectSeq(Company, LAMBDA row : row.name # c)
    /\ UNCHANGED <<News, News_indicator, Sustainability_indicator>>

C19_DeleteCascadesAndSparesTheRest ==
    [][\A c \in CompanyNames :
         Wrote("delete_company", c) /\ response'.status = 200
             => DeletedWithItsRows(c) /\ OthersKept(c)]_vars

\* Ab was deleted with the row that tied it to a stored article, which company C
\* still has
C19_Witness ==
    /\ response.request = "delete_company"
    /\ response.args.company_name = Ab
    /\ response.status = 200
    /\ NoCallRunning
    /\ \E n \in NewsIds :
          /\ IsIn(Ab, News[n].text)
          /\ CompaniesOfNews(n) = {[news_ID |-> n, company_name |-> Cd]}

(***************************************************************************)
(* C20  An aggregate query returns (min, avg, max) of the sentiment, in    *)
(* that order, over the rows that pass its filter: the News rows of the    *)
(* company up to the sentiment, from the date on and relevant, once for    *)
(* each of their News_indicator rows at or above the threshold (and of the *)
(* indicator, when one is given).  When no row passes it returns a triple  *)
(* of three None.  C20_Original is the statement with (min, max, avg) over *)
(* the articles and no triple for the empty set.                           *)
(***************************************************************************)
StatsByCompany == "get_sentiment_stats_by_company_and_date_range"
StatsByIndicator == "get_sentiment_stats_by_company_indicator_and_date_range"

\* the step answers a call of an aggregate query
StatsAnswered ==
    /\ response = NoResponse
    /\ response'.request \in {StatsByCompany, StatsByIndicator}

\* the News_indicator rows whose News row passes the filter of the call
PassingRows(request, args) ==
    {r \in News_indicator :
        /\ r.news_ID \in NewsIds
        /\ [news_ID |-> r.news_ID, company_name |-> args.company_name] \in contains
        /\ News[r.news_ID].sentiment <= args.max_sentiment
        /\ News[r.news_ID].relevancy_score >= news_are_relevant_threshold
        /\ News[r.news_ID].date >= date_ranges[args.date_range]
        /\ r.probability >= indicator_belongs_to_news_threshold
        /\ request = StatsByIndicator => r.sustainability_indicator_name = args.indicator_name}

PassingArticles(request, args) ==
    {[news_ID |-> r.news_ID] : r \in PassingRows(request, args)}

IsLeast(f, rows) ==
    /\ f.den = 1
    /\ \E r \in rows : News[r.news_ID].sentiment = f.num
    /\ \A r \in rows : News[r.news_ID].sentiment >= f.num

IsGreatest(f, rows) ==
    /\ f.den = 1
    /\ \E r \in rows : News[r.news_ID].sentiment = f.num
    /\ \A r \in rows : News[r.news_ID].sentiment <= f.num

IsAverage(f, rows) ==
    /\ f.den > 0
    /\ f.num * Cardinality(rows) = SumOfSentiments(rows) * f.den

C20_Original ==
    [][StatsAnswered =>
         LET articles == PassingArticles(response'.request, response'.args)
             body == response'.body
         IN IF articles = {}
            THEN body = <<>>
            ELSE /\ Len(body) = 3
                 /\ IsLeast(body[1], articles)
                 /\ IsGreatest(body[2], articles)
                 /\ IsAverage(body[3], articles)]_vars

C20_MinAvgMaxOverJoinedRows ==
    [][StatsAnswered =>
         LET rows == PassingRows(response'.request, response'.args)
             body == response'.body
         IN IF rows = {}
            THEN body = <<NoValue, NoValue, NoValue>>
            ELSE /\ Len(body) = 3
                 /\ IsLeast(body[1], rows)
                 /\ IsAverage(body[2], rows)
                 /\ IsGreatest(body[3], rows)]_vars

\* two articles of the company, one of them with two indicators: min 2, avg 16/3,
\* max 7
C20_Witness ==
    /\ response.request = StatsByCompany
    /\ response.body = <<Fraction(2, 1), Fraction(16, 3), Fraction(7, 1)>>

(***************************************************************************)
(* C21  POST /companies for a stored name and POST /synonyms for a stored  *)
(* (company, name) pair are answered 409; POST /synonyms for a company     *)
(* that is not stored, DELETE /companies for a company that is not stored  *)
(* and DELETE /synonyms for a pair that is not stored are answered 404;    *)
(* none of them changes a table.                                           *)
(***************************************************************************)
\* the step answers a write request for the company and the synonym name
WroteSynonym(request, company_name, synonym_name) ==
    /\ Wrote(request, company_name)
    /\ response'.args.synonym_name = synonym_name

StoredCompany(c) == \E k \in DOMAIN Company : Company[k].name = c

StoredPair(c, n) ==
    \E k \in DOMAIN Synonym : Synonym[k].company_name = c /\ Synonym[k].name = n

Rejected(status) == response'.status = status /\ UNCHANGED storeVars

C21_DuplicatesAndMissingAreRejected ==
    [][\A c \in CompanyNames, n \in SynonymNames :
         /\ Wrote("create_company", c) /\ StoredCompany(c) => Rejected(409)
         /\ WroteSynonym("create_synonym", c, n) /\ StoredPair(c, n) => Rejected(409)
         /\ WroteSynonym("create_synonym", c, n) /\ ~ StoredCompany(c) => Rejected(404)
         /\ Wrote("delete_company", c) /\ ~ StoredCompany(c) => Rejected(404)
         /\ WroteSynonym("delete_synonym", c, n) /\ ~ StoredPair(c, n) => Rejected(404)]_vars

\* a synonym was sent a second time for its company while an article of the
\* company is stored
C21_Witness ==
    /\ response.request = "create_synonym"
    /\ response.status = 409
    /\ contains # {}

(***************************************************************************)
(* C22  A read request that names a company that is not stored, an         *)
(* indicator that is not in Sustainability_indicator or a date range that  *)
(* is not in date_ranges is answered 404.                                  *)
(***************************************************************************)
ReadRequests ==
    {"get_news", "get_news_with_lowest_sentiment", "do_news_exist", "get_indicator_stats"}

\* the step answers a read request
ReadAnswered == response = NoResponse /\ response'.request \in ReadRequests

AllGiven(args) == args.company_name # <<>> /\ args.date_range # ""

NamesUnknown(args) ==
    \/ ~ StoredCompany(args.company_name)
    \/ args.date_range \notin {"Heute", "Insgesamt"}
    \/ args.indicator_name # "" /\ args.indicator_name \notin Sustainability_indicator

C22_UnknownNameIsNotFound ==
    [][ReadAnswered /\ AllGiven(response'.args) /\ NamesUnknown(response'.args)
          => response'.status = 404]_vars

(***************************************************************************)
(* C23  When the search threads of a cycle have been joined, the search    *)
(* has been called exactly once with every name that is a company name or  *)
(* a synonym name of the store, for every threads_for_news_search.         *)
(***************************************************************************)
\* lines 115-118: every thread has come to the end of its chunk
ThreadsJoined ==
    /\ bulk # NoBulk
    /\ \A j \in DOMAIN searched : searched[j] = bulk.news_chunks[j]

\* the calls of the search with the term
SearchesOf(term) ==
    UNION {{<<j, k>> : k \in {i \in DOMAIN searched[j] : searched[j][i] = term}} :
              j \in DOMAIN searched}

TermsOfStore ==
    {Company[k].name : k \in DOMAIN Company} \cup {Synonym[k].name : k \in DOMAIN Synonym}

C23_EveryTermSearchedOnce ==
    ThreadsJoined => \A term \in TermsOfStore : Cardinality(SearchesOf(term)) = 1

(***************************************************************************)
(* C24  Whenever a program has constructed a NewsAnalysisDAO,              *)
(* Sustainability_indicator holds exactly the members of Indicators, in    *)
(* one program and in two programs that are started together.              *)
(***************************************************************************)
HasHandle(p) == dao[p].handles >= 1

C24_CatalogSeededOnce ==
    (\E p \in Programs : HasHandle(p)) => Sustainability_indicator = Indicators

(***************************************************************************)
(* C25  When analyze_news_text has created a News row and is done with the *)
(* labels, the News_indicator rows of that News row are one row for every  *)
(* (label, probability) pair of the classifier whose label is a            *)
(* Sustainability_indicator, with that probability, and no other row; the  *)
(* other labels raise nothing and the call returns.                        *)
(***************************************************************************)
IndicatorsOfNews(rows, news_ID) == {row \in rows : row.news_ID = news_ID}

RowsOfRun(news_ID, run) ==
    {[news_ID |-> news_ID, sustainability_indicator_name |-> run.labels[k],
      probability |-> run.probs[k]] :
        k \in {m \in DOMAIN run.labels : run.labels[m] \in Sustainability_indicator}}

\* the call of process w has created a News row and leaves the loop over the labels
LabelsDone(w) ==
    /\ proc[w].pc = "indicators"
    /\ proc[w].new_news # NoNews
    /\ proc'[w].pc # "indicators"

C25_OneRowPerCatalogLabel ==
    [][\A w \in Procs :
          LabelsDone(w) =>
              /\ results'[proc[w].task].outcome = "returned"
              /\ IndicatorsOfNews(News_indicator', proc[w].new_news)
                    = RowsOfRun(proc[w].new_news, proc[w].run)]_vars

\* a run with a label that is no indicator has left one row, the loop is at its end
C25_Witness ==
    \E w \in Procs :
        /\ proc[w].pc = "indicators"
        /\ proc[w].new_news # NoNews
        /\ CatalogLabelsFrom(proc[w].run, proc[w].i) = {}
        /\ "Unknown" \in Range(proc[w].run.labels)
        /\ Cardinality(IndicatorsOfNews(News_indicator, proc[w].new_news)) = 1

(***************************************************************************)
(* C26  create_news stores the News row and its contains rows as one unit: *)
(* in no state of the store, the states in the middle of a call included,  *)
(* is there a News row without a contains row.                             *)
(***************************************************************************)
C26_NewsRowNeverWithoutCompany ==
    \A n \in NewsIds : \E row \in contains : row.news_ID = n

(***************************************************************************)
(* C27  A call of analyze_news_text for a text that holds no company name  *)
(* and no synonym ends at the recognition with                             *)
(* NoRelevantCompaniesInNewsTextException: News was not looked up, the     *)
(* classifier was not called and no table has changed; no call gets past   *)
(* the recognition without a recognized company.                           *)
(***************************************************************************)
PastRecognition ==
    {"lookup", "classify", "relevancy", "create_news", "add_companies", "attach",
     "indicators"}

\* process w leaves the recognition of a text that names nobody
NobodyRecognized(w) ==
    /\ proc[w].pc = "recognize"
    /\ NamedIn(NewsOf(w).article) = {}
    /\ proc'[w] # proc[w]

C27_NoCompanyEndsTheCallAtOnce ==
    /\ [](\A w \in Procs :
              proc[w].pc \in PastRecognition => proc[w].recognized_company_names # <<>>)
    /\ [][\A w \in Procs :
              NobodyRecognized(w) =>
                  /\ results'[proc[w].task].outcome = NoRelevantCompanies
                  /\ proc'[w].pc \notin PastRecognition
                  /\ proc'[w].news_in_db = NoNews
                  /\ proc'[w].run = NoRun
                  /\ UNCHANGED storeVars]_vars

\* a text that names nobody has ended with the exception and is in no News row,
\* beside a text that was stored
C27_Witness ==
    \E k \in DOMAIN results :
        /\ results[k].outcome = NoRelevantCompanies
        /\ RowsWithText(received_news_list[k].article) = {}
        /\ News # <<>>

(***************************************************************************)
(* C28  A step of add_companies_to_news for a company that the News row    *)
(* is attached to leaves contains as it is and raises nothing; the call    *)
(* goes on with the next name, and a stored company that the News row is   *)
(* not attached to gets its row.                                           *)
(***************************************************************************)
\* process w is done with one name of add_companies_to_news
AttachStep(w) ==
    /\ proc[w].pc \in {"add_companies", "attach"}
    /\ proc'[w] # proc[w]

\* the row the step of process w is about
RowToAttach(w) ==
    [news_ID |-> AttachTarget(w),
     company_name |-> proc[w].recognized_company_names[proc[w].i]]

C29_AverageCountsAnArticleOnce ==
    [][(StatsAnswered /\ response'.request = StatsByCompany) =>
         LET articles == PassingArticles(StatsByCompany, response'.args) IN
         articles # {} => IsAverage(response'.body[2], articles)]_vars

(***************************************************************************)
(* C30  GET /indicator_stats answered 200 returns one entry, with the      *)
(* minimum, the average and the maximum of the sentiment, for every        *)
(* requested indicator some row of which passes the filter, a sentiment    *)
(* of 0 included, and no entry for any other indicator.                    *)
(***************************************************************************)
\* the indicators the request asks for
Requested(args) ==
    IF args.indicator_name = "" THEN Sustainability_indicator ELSE {args.indicator_name}

EntriesOf(body, indicator_name) ==
    {k \in DOMAIN body : body[k].indicator_name = indicator_name}

C30_OneEntryPerIndicatorWithNews ==
    [][(response = NoResponse /\ response'.request = "get_indicator_stats"
          /\ response'.status = 200) =>
         \A i \in Sustainability_indicator \cup StatsIndicators :
             LET rows == PassingRows(StatsByIndicator,
                                     [response'.args EXCEPT !.indicator_name = i])
                 entries == EntriesOf(response'.body, i)
             IN IF i \in Requested(response'.args) /\ rows # {}
                THEN /\ Cardinality(entries) = 1
                     /\ \A k \in entries :
                            /\ IsLeast(response'.body[k].indicator_min, rows)
                            /\ IsAverage(response'.body[k].indicator_avg, rows)
                            /\ IsGreatest(response'.body[k].indicator_max, rows)
                ELSE entries = {}]_vars

====
